---- MODULE Spec2Model ----
(***************************************************************************)
(* A model of tp_raw_event_reader.py: the bit cursor (LogReader), the      *)
(* per-player event decoder (PlayerLogReader) and the match aggregation    *)
(* (generate_match_info, add_current_team_captures,                        *)
(* add_winner_to_scoreboard).                                              *)
(***************************************************************************)
EXTENDS Integers, Sequences, FiniteSets, TLC

(***************************************************************************)
(* Bounds of the model.                                                    *)
(***************************************************************************)
\* longest payload, in bytes, of a match with a single player
MaxBytes == 4
\* longest payload, in bytes, of each player of a match with several players
MatchBytes == 2
\* number of byte values of ByteList a single player's payload draws from
NByteVals == 8
\* number of byte values of ByteList the payloads of a several-player match draw from
NMatchByteVals == 3
\* most players of a match
MaxPlayers == 2
\* longest match duration, in frames
MaxDuration == 2
\* longest buffer, in bytes, the bit cursor is exercised on by itself
RdBytes == 2
\* how far past the end of the buffer a cursor read may start, in bits
PastEnd == 3
\* widest read_fixed the bit cursor is exercised with
MaxWidth == 16
\* most zero bytes appended to a payload
MaxPad == 2
\* number of PlayerLogReader objects decoded side by side
ParPlayers == 2
\* longest payload, in bytes, of a reader decoded side by side with others
ParBytes == 4
\* number of byte values of ParByteList those payloads draw from
NParByteVals == 2

\* longest event list handed to scoreboard by itself
MeasureLen == 4
\* latest time of an event of such a list
MeasureTime == 2
\* number of kinds of MeasureKindList the events of such a list draw from
NMeasureKinds == 5

\* most scoreboards handed to add_winner_to_scoreboard by itself
MaxBoards == 2
\* largest capture total of a team in such a call
MaxCaps == 1

\* the byte values payloads are built from, the most useful first
ByteList == <<0, 12, 128, 255, 74, 8, 36, 42, 2>>

\* the kinds of the events of the lists handed to scoreboard by itself
MeasureKindList == <<"grab", "drop", "pop", "prevent_start", "prevent_stop", "capture">>

\* the byte values of the payloads decoded side by side
ParByteList == <<12, 128, 0>>

\* the value of a field an event or a scoreboard does not carry (Python None / absent key)
None == -1

VARIABLES
    match_json,         \* the match record: duration and number of players
    player,             \* the player record of the loop of generate_match_info
    rd,                 \* player_reader, the PlayerLogReader of that player
    match_events,       \* generate_match_info's match_events
    match_scoreboards,  \* generate_match_info's match_scoreboards
    team_caps,          \* the totals returned by add_current_team_captures
    mpc,                \* where generate_match_info stands
    last,               \* the last bit-cursor read made by itself: what, from where, result
    readers             \* the PlayerLogReader objects of a match decoded side by side

vars == <<match_json, player, rd, match_events, match_scoreboards, team_caps, mpc, last,
          readers>>

(***************************************************************************)
(* LogReader: the bit cursor.  A cursor is a record [data, pos]; a read    *)
(* returns [val, pos]: the value read and the position after it.           *)
(***************************************************************************)
Pow2(n) == 2 ^ n

\* x >> n
Shr(x, n) == x \div Pow2(n)

\* LogReader.end
End(data, pos) == Shr(pos, 3) >= Len(data)

\* read_bool taking the bits of a byte least significant first
ReadBoolLsbFirst(data, pos) ==
    [val |-> IF End(data, pos) THEN 0
             ELSE Shr(data[Shr(pos, 3) + 1], pos % 8) % 2,
     pos |-> pos + 1]

\* read_bool returning 1 bits past the end of the buffer
ReadBoolOnesPastEnd(data, pos) ==
    [val |-> IF End(data, pos) THEN 1
             ELSE Shr(data[Shr(pos, 3) + 1], 7 - (pos % 8)) % 2,
     pos |-> pos + 1]

\* LogReader.read_bool: the bit at pos, 0 past the end; pos moves by one either way
ReadBool(data, pos) ==
    [val |-> IF End(data, pos) THEN 0
             ELSE Shr(data[Shr(pos, 3) + 1], 7 - (pos % 8)) % 2,
     pos |-> pos + 1]

\* LogReader.read_fixed: the loop "while bits", one read_bool per turn
RECURSIVE ReadFixedLoop(_, _, _, _)
ReadFixedLoop(data, pos, bits, result) ==
    IF bits = 0 THEN [val |-> result, pos |-> pos]
    ELSE LET b == ReadBool(data, pos)
         IN  ReadFixedLoop(data, b.pos, bits - 1, result * 2 + b.val)

ReadFixed(data, pos, bits) == ReadFixedLoop(data, pos, bits, 0)

\* LogReader.read_tally: the loop "while self.read_bool()".  The loop is
\* followed for at most `fuel` turns; a loop that is still running then is
\* reported as cut.
RECURSIVE ReadTallyLoop(_, _, _, _)
ReadTallyLoop(data, pos, result, fuel) ==
    LET b == ReadBool(data, pos)
    IN  IF b.val = 0 THEN [val |-> result, pos |-> b.pos, cut |-> FALSE]
        ELSE IF fuel = 0 THEN [val |-> result, pos |-> b.pos, cut |-> TRUE]
        ELSE ReadTallyLoop(data, b.pos, result + 1, fuel - 1)

\* more turns than any buffer of the model has bits
TallyFuel(data) == 8 * Len(data) + PastEnd + 8

\* read_tally leaving the cursor on the zero bit that ends the run
ReadTallyKeepsStopBit(data, pos) ==
    LET t == ReadTallyLoop(data, pos, 0, TallyFuel(data))
    IN  [t EXCEPT !.pos = @ - 1]

ReadTally(data, pos) == ReadTallyLoop(data, pos, 0, TallyFuel(data))

\* read_footer without the bias of the wider classes
FooterNoBias(free, bits, minimum) == minimum

\* LogReader.read_footer: the loop "while free < bits" computing minimum
RECURSIVE FooterMinimum(_, _, _)
FooterMinimum(free, bits, minimum) ==
    IF free < bits THEN FooterMinimum(free + 8, bits, minimum + Pow2(free))
    ELSE minimum

\* a footer of whole bytes only, read from wherever the cursor stands
ReadFooterWholeBytes(data, pos) ==
    LET sel == ReadFixed(data, pos, 2)
        fix == ReadFixed(data, sel.pos, sel.val * 8)
    IN  [val |-> fix.val + FooterMinimum(0, sel.val * 8, 0), pos |-> fix.pos]

\* LogReader.read_footer
ReadFooter(data, pos) ==
    LET sel  == ReadFixed(data, pos, 2)
        free == (8 - (sel.pos % 8)) % 8
        bits == sel.val * 8 + free
        fix  == ReadFixed(data, sel.pos, bits)
    IN  [val |-> fix.val + FooterMinimum(free, bits, 0), pos |-> fix.pos]

(***************************************************************************)
(* PlayerLogReader: the constants of __init__.                             *)
(***************************************************************************)
no_team == 0
red_team == 1
blue_team == 2
no_flag == 0
temporary_flag == 5
pup_none == 0

\* powers & i, for i a power of two
HasBit(powers, i) == (powers \div i) % 2 = 1

\* PlayerLogReader.__init__: the reader of one player of the match
NewReader(data, name, team, duration) ==
    [data |-> data, pos |-> 0, name |-> name, team |-> team, duration |-> duration,
     time |-> 0, flag |-> no_flag, powers |-> pup_none,
     prevent |-> FALSE, button |-> FALSE, block |-> FALSE,
     events |-> <<>>,
     new_team |-> None, dropPop |-> 0, returns |-> 0, tags |-> 0, grab |-> FALSE,
     captures |-> 0, keep |-> FALSE, newFlag |-> None, powerups |-> 0,
     powers_down |-> pup_none, powers_up |-> pup_none,
     togglePrevent |-> 0, toggleButton |-> 0, toggleBlock |-> 0,
     pc |-> "start"]

\* PlayerLogReader._log_event: the keyword arguments, the kind, then the
\* player information of get_player_info, whose 'team' is self.team as it is
\* when the event is logged and replaces the 'team' keyword argument.  score
\* stands for the keys score_team_<t>_current, absent until the event is annotated.
Event(r, kind, time, flag, powers, pup, new_powers, old_team, new_team) ==
    [event |-> kind, time |-> time, flag |-> flag, powers |-> powers, pup |-> pup,
     new_powers |-> new_powers, old_team |-> old_team, new_team |-> new_team,
     name |-> r.name, team |-> r.team, score |-> <<>>]

Log(r, kind, time, flag, powers, pup, new_powers, old_team, new_team) ==
    [r EXCEPT !.events =
        Append(@, Event(r, kind, time, flag, powers, pup, new_powers, old_team, new_team))]

\* the events most kinds log: time, flag, powers, team
LogState(r, kind) == Log(r, kind, r.time, r.flag, r.powers, None, None, None, None)

\* decode_events, the loop over the four power bits of a frame ("while i < 16")
RECURSIVE ReadPowers(_, _, _, _, _, _, _)
ReadPowers(data, pos, powers, i, powerups, powers_down, powers_up) ==
    IF i >= 16
    THEN [pos |-> pos, powerups |-> powerups, powers_down |-> powers_down, powers_up |-> powers_up]
    ELSE IF HasBit(powers, i)
    THEN LET b == ReadBool(data, pos)
         IN  ReadPowers(data, b.pos, powers, 2 * i, powerups,
                        IF b.val = 1 THEN powers_down + i ELSE powers_down, powers_up)
    ELSE IF powerups # 0
    THEN LET b == ReadBool(data, pos)
         IN  IF b.val = 1
             THEN ReadPowers(data, b.pos, powers, 2 * i, powerups - 1, powers_down, powers_up + i)
             ELSE ReadPowers(data, b.pos, powers, 2 * i, powerups, powers_down, powers_up)
    ELSE ReadPowers(data, pos, powers, 2 * i, powerups, powers_down, powers_up)

\* the reader after a read_tally t: the cursor has moved; a loop of read_tally
\* that did not end leaves the decode hung
AfterTally(r, t) == [r EXCEPT !.pos = t.pos, !.pc = IF t.cut THEN "hung" ELSE @]

\* decode_events, "Read team information": quit, switch, join or stay
ReadNewTeam(r) ==
    LET change == ReadBool(r.data, r.pos)
    IN  IF change.val = 1
        THEN LET which == ReadBool(r.data, change.pos)
             IN  [r EXCEPT !.pos = which.pos,
                           !.new_team = IF r.team # 0
                                        THEN (IF which.val = 1 THEN no_team ELSE 3 - r.team)
                                        ELSE 1 + which.val]
        ELSE [r EXCEPT !.pos = change.pos, !.new_team = r.team]

\* self.dropPop = self.read_bool()
ReadDropPop(r) ==
    LET b == ReadBool(r.data, r.pos) IN [r EXCEPT !.pos = b.pos, !.dropPop = b.val]

\* self.returns = self.read_tally()
ReadReturns(r) ==
    LET t == ReadTally(r.data, r.pos) IN [AfterTally(r, t) EXCEPT !.returns = t.val]

\* self.tags = self.read_tally()
ReadTags(r) ==
    LET t == ReadTally(r.data, r.pos) IN [AfterTally(r, t) EXCEPT !.tags = t.val]

\* self.grab = (not self.flag) and self.read_bool()
ReadGrab(r) ==
    IF r.flag = no_flag
    THEN LET b == ReadBool(r.data, r.pos) IN [r EXCEPT !.pos = b.pos, !.grab = b.val = 1]
    ELSE [r EXCEPT !.grab = FALSE]

\* self.captures = self.read_tally()
ReadCaptures(r) ==
    LET t == ReadTally(r.data, r.pos) IN [AfterTally(r, t) EXCEPT !.captures = t.val]

\* self.keep = ...: the conjunction is cut short as Python cuts it, so the
\* bit is read only when nothing before it settles the value
ReadKeep(r) ==
    IF r.dropPop = 0 /\ r.new_team # 0 /\ (r.new_team = r.team \/ r.team = 0)
    THEN IF r.captures = 0 \/ (r.flag = no_flag /\ ~r.grab)
         THEN [r EXCEPT !.keep = TRUE]
         ELSE LET b == ReadBool(r.data, r.pos) IN [r EXCEPT !.pos = b.pos, !.keep = b.val = 1]
    ELSE [r EXCEPT !.keep = FALSE]

\* the kind of a grabbed flag read from the buffer whatever keep is
ReadNewFlagWithoutKeep(r) ==
    IF r.grab
    THEN LET kind == ReadFixed(r.data, r.pos, 2)
         IN  [r EXCEPT !.pos = kind.pos, !.newFlag = 1 + kind.val]
    ELSE [r EXCEPT !.newFlag = r.flag]

\* "If we have grabbed, check which flag"
ReadNewFlag(r) ==
    IF r.grab
    THEN IF r.keep
         THEN LET kind == ReadFixed(r.data, r.pos, 2)
              IN  [r EXCEPT !.pos = kind.pos, !.newFlag = 1 + kind.val]
         ELSE [r EXCEPT !.newFlag = temporary_flag]
    ELSE [r EXCEPT !.newFlag = r.flag]

\* self.powerups = self.read_tally()
ReadPowerups(r) ==
    LET t == ReadTally(r.data, r.pos) IN [AfterTally(r, t) EXCEPT !.powerups = t.val]

\* powers_down and powers_up, from the loop over the power bits
ReadPowerBits(r) ==
    LET pw == ReadPowers(r.data, r.pos, r.powers, 1, r.powerups, pup_none, pup_none)
    IN  [r EXCEPT !.pos = pw.pos, !.powerups = pw.powerups,
                  !.powers_down = pw.powers_down, !.powers_up = pw.powers_up]

\* self.togglePrevent = self.read_bool()
ReadTogglePrevent(r) ==
    LET b == ReadBool(r.data, r.pos) IN [r EXCEPT !.pos = b.pos, !.togglePrevent = b.val]

\* self.toggleButton = self.read_bool()
ReadToggleButton(r) ==
    LET b == ReadBool(r.data, r.pos) IN [r EXCEPT !.pos = b.pos, !.toggleButton = b.val]

\* self.toggleBlock = self.read_bool()
ReadToggleBlock(r) ==
    LET b == ReadBool(r.data, r.pos) IN [r EXCEPT !.pos = b.pos, !.toggleBlock = b.val]

\* self.time += (1 + self.read_footer())
ReadTime(r) ==
    LET footer == ReadFooter(r.data, r.pos)
    IN  [r EXCEPT !.pos = footer.pos, !.time = @ + 1 + footer.val]

\* decode_events, one turn of "while not self.end()" up to the call of
\* _log_events: the fields of the frame are read into the reader's
\* attributes, statement by statement, and the time advances
DecodeFrame(r) ==
    ReadTime(ReadToggleBlock(ReadToggleButton(ReadTogglePrevent(
    ReadPowerBits(ReadPowerups(ReadNewFlag(ReadKeep(ReadCaptures(
    ReadGrab(ReadTags(ReadReturns(ReadDropPop(ReadNewTeam(r))))))))))))))

(***************************************************************************)
(* PlayerLogReader._log_events, one stage per block of the method, in the  *)
(* method's order.                                                         *)
(***************************************************************************)
\* "for i in range(n)": n events of one kind
RECURSIVE LogRepeat(_, _, _)
LogRepeat(r, kind, n) == IF n <= 0 THEN r ELSE LogRepeat(LogState(r, kind), kind, n - 1)

\* a join logged before self.team is assigned
LogJoinBeforeAssign(r) ==
    IF r.team = no_team /\ r.new_team # no_team
    THEN [Log(r, "join", r.time, None, None, None, None, None, r.new_team)
             EXCEPT !.team = r.new_team]
    ELSE r

LogJoin(r) ==
    IF r.team = no_team /\ r.new_team # no_team
    THEN LET j == [r EXCEPT !.team = r.new_team]
         IN  Log(j, "join", j.time, None, None, None, None, None, j.team)
    ELSE r

LogGrab(r) ==
    IF r.grab THEN LogState([r EXCEPT !.flag = r.newFlag], "grab") ELSE r

\* the capture block entered with "captures >= 0"
LogCapturesFromZero(r) ==
    LET c == [r EXCEPT !.captures = @ - 1]
    IN  IF c.keep \/ c.flag = no_flag
        THEN LogState(c, "flagless_capture")
        ELSE [LogState(c, "capture") EXCEPT !.flag = no_flag, !.keep = TRUE]

\* the capture block as a loop that logs one event per unit of the tally
RECURSIVE LogCapturesEveryUnit(_)
LogCapturesEveryUnit(r) ==
    IF r.captures > 0
    THEN LET c == [r EXCEPT !.captures = @ - 1]
         IN  IF c.keep \/ c.flag = no_flag
             THEN LogCapturesEveryUnit(LogState(c, "flagless_capture"))
             ELSE LogCapturesEveryUnit([LogState(c, "capture") EXCEPT !.flag = no_flag, !.keep = TRUE])
    ELSE r

\* "Log all captures": one event whatever the tally
LogCaptures(r) ==
    IF r.captures > 0
    THEN LET c == [r EXCEPT !.captures = @ - 1]
         IN  IF c.keep \/ c.flag = no_flag
             THEN LogState(c, "flagless_capture")
             ELSE [LogState(c, "capture") EXCEPT !.flag = no_flag, !.keep = TRUE]
    ELSE r

\* the loop over the power bits taken from the highest bit down
RECURSIVE LogPowersFromTop(_, _)
LogPowersFromTop(r, i) ==
    IF i >= 16 THEN r
    ELSE IF HasBit(r.powers_down, 8 \div i)
    THEN LET q == [r EXCEPT !.powers = IF HasBit(@, 8 \div i) THEN @ - (8 \div i) ELSE @ + (8 \div i)]
         IN  LogPowersFromTop(Log(q, "power_down", q.time, q.flag, None, 8 \div i, q.powers, None, None), 2 * i)
    ELSE IF HasBit(r.powers_up, 8 \div i)
    THEN LET q == [r EXCEPT !.powers = IF HasBit(@, 8 \div i) THEN @ ELSE @ + (8 \div i)]
         IN  LogPowersFromTop(Log(q, "power_up", q.time, q.flag, None, 8 \div i, q.powers, None, None), 2 * i)
    ELSE LogPowersFromTop(r, 2 * i)

\* the loop "while i < 16" over the power bits
RECURSIVE LogPowers(_, _)
LogPowers(r, i) ==
    IF i >= 16 THEN r
    ELSE IF HasBit(r.powers_down, i)
    THEN LET q == [r EXCEPT !.powers = IF HasBit(@, i) THEN @ - i ELSE @ + i]
         IN  LogPowers(Log(q, "power_down", q.time, q.flag, None, i, q.powers, None, None), 2 * i)
    ELSE IF HasBit(r.powers_up, i)
    THEN LET q == [r EXCEPT !.powers = IF HasBit(@, i) THEN @ ELSE @ + i]
         IN  LogPowers(Log(q, "power_up", q.time, q.flag, None, i, q.powers, None, None), 2 * i)
    ELSE LogPowers(r, 2 * i)

\* a prevent toggle that logs and leaves the boolean as it is
LogPreventNeverFlips(r) ==
    IF r.togglePrevent = 1
    THEN IF r.prevent THEN LogState(r, "prevent_stop") ELSE LogState(r, "prevent_start")
    ELSE r

\* "Log prevent"
LogPrevent(r) ==
    IF r.togglePrevent = 1
    THEN IF r.prevent THEN [LogState(r, "prevent_stop") EXCEPT !.prevent = FALSE]
         ELSE [LogState(r, "prevent_start") EXCEPT !.prevent = TRUE]
    ELSE r

LogButton(r) ==
    IF r.toggleButton = 1
    THEN IF r.button THEN [LogState(r, "button_stop") EXCEPT !.button = FALSE]
         ELSE [LogState(r, "button_start") EXCEPT !.button = TRUE]
    ELSE r

LogBlock(r) ==
    IF r.toggleBlock = 1
    THEN IF r.block THEN [LogState(r, "block_stop") EXCEPT !.block = FALSE]
         ELSE [LogState(r, "block_start") EXCEPT !.block = TRUE]
    ELSE r

\* a drop that leaves the flag held
LogDropPopKeepsFlag(r) ==
    IF r.dropPop = 1
    THEN IF r.flag # no_flag THEN LogState(r, "drop")
         ELSE Log(r, "pop", r.time, None, r.powers, None, None, None, None)
    ELSE r

LogDropPop(r) ==
    IF r.dropPop = 1
    THEN IF r.flag # no_flag THEN [LogState(r, "drop") EXCEPT !.flag = no_flag]
         ELSE Log(r, "pop", r.time, None, r.powers, None, None, None, None)
    ELSE r

\* quit leaves self.team as it is; switch logs new_team = self.team before
\* self.team is assigned
LogTeamChange(r) ==
    IF r.new_team # r.team
    THEN IF r.new_team = no_team
         THEN [Log(r, "quit", r.time, r.flag, r.powers, None, None, r.team, None)
                  EXCEPT !.powers = pup_none]
         ELSE [Log(r, "switch", r.time, r.flag, r.powers, None, None, r.team, r.team)
                  EXCEPT !.flag = no_flag, !.team = r.new_team]
    ELSE r

\* "for i in range(self.returns)", "for i in range(self.tags)" and
\* "for i in range(self.powerups)"
LogReturns(r) == LogRepeat(r, "return", r.returns)
LogTags(r) == LogRepeat(r, "tag", r.tags)
LogDuplicates(r) == LogRepeat(r, "duplicate_powerup", r.powerups)

\* the blocks of _log_events with the button toggle logged ahead of the
\* prevent toggle
LogEventsButtonFirst(r) ==
    LogTeamChange(LogDropPop(LogBlock(LogPrevent(LogButton(LogDuplicates(
    LogPowers(LogCaptures(LogGrab(LogTags(LogReturns(LogJoin(r))))), 1)))))))

\* _log_events: the blocks in the order of the method
LogEvents(r) ==
    LogTeamChange(LogDropPop(LogBlock(LogButton(LogPrevent(LogDuplicates(
    LogPowers(LogCaptures(LogGrab(LogTags(LogReturns(LogJoin(r))))), 1)))))))

\* a sort that puts an element before the elements of the same time
RECURSIVE InsertBeforeTies(_, _)
InsertBeforeTies(sorted, e) ==
    IF sorted = <<>> THEN <<e>>
    ELSE IF sorted[Len(sorted)].time < e.time THEN Append(sorted, e)
    ELSE Append(InsertBeforeTies(SubSeq(sorted, 1, Len(sorted) - 1), e), sorted[Len(sorted)])

\* sorted(events, key = time): Python's sort is stable; an element goes
\* behind every element already placed whose time is not larger
RECURSIVE InsertByTime(_, _)
InsertByTime(sorted, e) ==
    IF sorted = <<>> THEN <<e>>
    ELSE IF sorted[Len(sorted)].time <= e.time THEN Append(sorted, e)
    ELSE Append(InsertByTime(SubSeq(sorted, 1, Len(sorted) - 1), e), sorted[Len(sorted)])

RECURSIVE SortedByTime(_)
SortedByTime(seq) ==
    IF seq = <<>> THEN <<>>
    ELSE InsertByTime(SortedByTime(SubSeq(seq, 1, Len(seq) - 1)), seq[Len(seq)])

\* decode_events before the loop: the start event
DecodeStart(r) ==
    [(IF r.team # 0 THEN Log(r, "start", 0, None, None, None, None, None, None) ELSE r)
        EXCEPT !.pc = "loop"]

\* decode_events, one turn of the loop
LogFrame(f) == IF f.pc = "hung" THEN f ELSE LogEvents(f)

DecodeTurn(r) == LogFrame(DecodeFrame(r))

\* an end event stamped with the decoder's time
DecodeEndAtDecoderTime(r) ==
    LET e == Log(r, "end", r.time, r.flag, r.powers, None, None, None, None)
    IN  [e EXCEPT !.events = SortedByTime(@), !.pc = "done"]

\* decode_events after the loop: the end event, the sort, the return
DecodeEnd(r) ==
    LET e == Log(r, "end", r.duration, r.flag, r.powers, None, None, None, None)
    IN  [e EXCEPT !.events = SortedByTime(@), !.pc = "done"]

\* decode_events as a whole, from wherever the reader stands
RECURSIVE DecodeEvents(_)
DecodeEvents(r) ==
    IF r.pc = "start" THEN DecodeEvents(DecodeStart(r))
    ELSE IF r.pc = "loop"
    THEN IF End(r.data, r.pos) THEN DecodeEnd(r) ELSE DecodeEvents(DecodeTurn(r))
    ELSE r

(***************************************************************************)
(* PlayerLogReader.scoreboard and the match aggregation.                   *)
(***************************************************************************)
\* PlayerLogReader._count_events
CountEvents(events, kinds) == Len(SelectSeq(events, LAMBDA e : e.event \in kinds))

\* twice the values of win_loss (1, 0.5, 0), to keep them integers
WIN == 2
DRAW == 1
LOSS == 0

\* the power-up kinds, one bit each
pup_jj == 1
pup_rb == 2
pup_tp == 4
pup_topspeed == 8

\* PlayerLogReader._count_pups
CountPups(events, target_pup) ==
    Len(SelectSeq(events, LAMBDA e : e.event = "power_up" /\ e.pup = target_pup))

\* a tracker that stays open after an off-kind event
RECURSIVE MeasureLoopStaysOpen(_, _, _, _, _, _, _)
MeasureLoopStaysOpen(events, i, on, off, flag, start_time, times) ==
    IF i > Len(events) THEN times
    ELSE IF events[i].event \in on
    THEN MeasureLoopStaysOpen(events, i + 1, on, off, TRUE, events[i].time, times)
    ELSE IF flag /\ events[i].event \in off
    THEN MeasureLoopStaysOpen(events, i + 1, on, off, TRUE, start_time,
                              Append(times, events[i].time - start_time))
    ELSE MeasureLoopStaysOpen(events, i + 1, on, off, flag, start_time, times)

\* PlayerLogReader._measure_duration, the loop "for event in self.events":
\* flag, start_time and times are the locals of the method
RECURSIVE MeasureLoop(_, _, _, _, _, _, _)
MeasureLoop(events, i, on, off, flag, start_time, times) ==
    IF i > Len(events) THEN times
    ELSE IF events[i].event \in on
    THEN IF events[i].event \in off
         THEN MeasureLoop(events, i + 1, on, off, FALSE, events[i].time, Append(times, 0))
         ELSE MeasureLoop(events, i + 1, on, off, TRUE, events[i].time, times)
    ELSE IF flag /\ events[i].event \in off
    THEN MeasureLoop(events, i + 1, on, off, FALSE, start_time,
                     Append(times, events[i].time - start_time))
    ELSE MeasureLoop(events, i + 1, on, off, flag, start_time, times)

\* PlayerLogReader._measure_duration
MeasureDuration(events, on, off) == MeasureLoop(events, 1, on, off, FALSE, None, <<>>)

\* PlayerLogReader.scoreboard: the player information of get_player_info,
\* whose team is self.team after the decode, the counts and the durations;
\* blocks is measured, as buttons is, from the button events, and pups is the
\* sum of the three per-kind counts
Scoreboard(r) ==
    [name |-> r.name, team |-> r.team, duration |-> r.duration,
     grabs |-> CountEvents(r.events, {"grab"}),
     holds |-> MeasureDuration(r.events, {"grab"}, {"drop", "pop", "capture"}),
     captures |-> CountEvents(r.events, {"capture"}),
     prevents |-> MeasureDuration(r.events, {"prevent_start"}, {"prevent_stop"}),
     buttons |-> MeasureDuration(r.events, {"button_start"}, {"button_stop"}),
     blocks |-> MeasureDuration(r.events, {"button_start"}, {"button_stop"}),
     pups |-> CountPups(r.events, pup_jj) + CountPups(r.events, pup_rb)
                 + CountPups(r.events, pup_tp),
     pup_jj |-> CountPups(r.events, pup_jj),
     pup_rb |-> CountPups(r.events, pup_rb),
     pup_tp |-> CountPups(r.events, pup_tp),
     final_team_score |-> None, win_loss |-> None]

\* add_current_team_captures: all_teams
AllTeams(events) == {events[i].team : i \in DOMAIN events}

\* a count that takes a flagless_capture for a capture
CountAnyCapture(caps, e) ==
    IF e.event \in {"capture", "flagless_capture"}
    THEN [caps EXCEPT ![e.team] = @ + 1]
    ELSE caps

\* add_current_team_captures: team_caps after the event e
CountCapture(caps, e) ==
    IF e.event = "capture"
    THEN [caps EXCEPT ![e.team] = @ + 1]
    ELSE caps

\* add_current_team_captures: the loop over the events; caps is team_caps
RECURSIVE AnnotateLoop(_, _, _, _)
AnnotateLoop(events, i, caps, out) ==
    IF i > Len(events) THEN [match_events |-> out, team_caps |-> caps]
    ELSE LET c2 == CountCapture(caps, events[i])
         IN  AnnotateLoop(events, i + 1, c2, Append(out, [events[i] EXCEPT !.score = c2]))

\* counters that go on from the annotation the last event already has
AddCapturesOnTop(events) ==
    AnnotateLoop(events, 1,
                 IF events # <<>> /\ events[Len(events)].score # <<>>
                 THEN events[Len(events)].score
                 ELSE [t \in AllTeams(events) |-> 0],
                 <<>>)

AddCurrentTeamCaptures(events) ==
    AnnotateLoop(events, 1, [t \in AllTeams(events) |-> 0], <<>>)

\* a lookup that falls back to a score of 0, as team_caps.get(team, 0) would
GetItemOrZero(caps, team) ==
    IF team \in DOMAIN caps THEN [raised |-> FALSE, val |-> caps[team]]
    ELSE [raised |-> FALSE, val |-> 0]

\* team_caps[player_team]: the value of the key, KeyError when the key is absent
GetItem(caps, team) ==
    IF team \in DOMAIN caps THEN [raised |-> FALSE, val |-> caps[team]]
    ELSE [raised |-> TRUE, val |-> None]

\* a winner test that lets a tie win
WinnerTiesWin(sb, caps) ==
    LET own    == GetItem(caps, sb.team).val
        others == {t \in DOMAIN caps : t # sb.team}
    IN  [sb EXCEPT !.final_team_score = own,
                   !.win_loss = IF \A t \in others : own >= caps[t] THEN WIN
                                ELSE IF \A t \in others : own = caps[t] THEN DRAW
                                ELSE LOSS]

\* add_winner_to_scoreboard: the body of the loop, for one scoreboard
Winner(sb, caps) ==
    LET own    == GetItem(caps, sb.team).val
        others == {t \in DOMAIN caps : t # sb.team}
    IN  [sb EXCEPT !.final_team_score = own,
                   !.win_loss = IF \A t \in others : own > caps[t] THEN WIN
                                ELSE IF \A t \in others : own = caps[t] THEN DRAW
                                ELSE LOSS]

\* "for player in match_scoreboards": the scoreboards are changed in place, one
\* after the other, and the KeyError of one leaves the earlier ones changed
RECURSIVE AddWinnerLoop(_, _, _)
AddWinnerLoop(sbs, caps, i) ==
    IF i > Len(sbs) THEN [boards |-> sbs, raised |-> FALSE]
    ELSE IF GetItem(caps, sbs[i].team).raised THEN [boards |-> sbs, raised |-> TRUE]
    ELSE AddWinnerLoop([sbs EXCEPT ![i] = Winner(sbs[i], caps)], caps, i + 1)

AddWinnerToScoreboard(sbs, caps) == AddWinnerLoop(sbs, caps, 1).boards

AddWinnerRaises(sbs, caps) == AddWinnerLoop(sbs, caps, 1).raised

(***************************************************************************)
(* The inputs.                                                             *)
(***************************************************************************)
\* the sequences over S of length at most n
SeqsUpTo(S, n) == UNION {[1..k -> S] : k \in 0..n}

Alphabet(n) == {ByteList[i] : i \in 1..n}

\* the payloads of the players of a match of n players
Payloads(n) ==
    IF n <= 1 THEN SeqsUpTo(Alphabet(NByteVals), MaxBytes)
    ELSE SeqsUpTo(Alphabet(NMatchByteVals), MatchBytes)

Teams == {no_team, red_team, blue_team}

\* what match_json['date'] may hold: a timestamp the platform can convert, no
\* value, a value that is not a number, a number outside the range of dates
Dates == {"timestamp", "none", "text", "out of range"}

\* a conversion that accepts whatever it is given
FromTimestampLenient(date) == "datetime"

\* datetime.datetime.fromtimestamp(date) in __init__: a datetime for a
\* timestamp, an exception (TypeError, ValueError, OverflowError, OSError)
\* for anything else
FromTimestamp(date) == IF date = "timestamp" THEN "datetime" ELSE "raise"

NoPlayer == [events |-> <<>>, team |-> no_team, name |-> 0]
NoReader == [NewReader(<<>>, 0, no_team, 0) EXCEPT !.pc = "none"]
NoCursor == [data |-> <<>>, pos |-> 0, op |-> "none", arg |-> 0, from |-> 0, val |-> 0]

(***************************************************************************)
(* generate_match_info, step by step.                                      *)
(***************************************************************************)
Init ==
    /\ match_json \in [duration : 1..MaxDuration, nplayers : 0..MaxPlayers, date : Dates]
    /\ readers = <<>>
    /\ player = NoPlayer
    /\ rd = NoReader
    /\ match_events = <<>>
    /\ match_scoreboards = <<>>
    /\ team_caps = <<>>
    /\ mpc = "players"
    /\ last = NoCursor

\* "for player in match_json['players']": the next player and its reader
NextPlayer ==
    /\ mpc = "players"
    /\ rd.pc \in {"none", "collected"}
    /\ Len(match_scoreboards) < match_json.nplayers
    /\ FromTimestamp(match_json.date) # "raise"
    /\ \E data \in Payloads(match_json.nplayers), team \in Teams :
          /\ player' = [events |-> data, team |-> team, name |-> Len(match_scoreboards) + 1]
          /\ rd' = NewReader(data, Len(match_scoreboards) + 1, team, match_json.duration)
    /\ UNCHANGED <<match_json, match_events, match_scoreboards, team_caps, mpc, last, readers>>

\* the same step when __init__ raises at "self.datetime = ...": data, pos and
\* name are set by then, team, duration and events are not; the exception
\* leaves generate_match_info
NextPlayerRaises ==
    /\ mpc = "players"
    /\ rd.pc \in {"none", "collected"}
    /\ Len(match_scoreboards) < match_json.nplayers
    /\ FromTimestamp(match_json.date) = "raise"
    /\ \E data \in Payloads(match_json.nplayers), team \in Teams :
          /\ player' = [events |-> data, team |-> team, name |-> Len(match_scoreboards) + 1]
          /\ rd' = [NoReader EXCEPT !.data = data, !.name = Len(match_scoreboards) + 1,
                                    !.pc = "raised"]
    /\ mpc' = "raised"
    /\ UNCHANGED <<match_json, match_events, match_scoreboards, team_caps, last, readers>>

\* decode_events up to the loop
Start ==
    /\ rd.pc = "start"
    /\ rd' = DecodeStart(rd)
    /\ UNCHANGED <<match_json, player, match_events, match_scoreboards, team_caps, mpc, last, readers>>

\* decode_events, one frame
Frame ==
    /\ rd.pc = "loop"
    /\ ~End(rd.data, rd.pos)
    /\ rd' = DecodeTurn(rd)
    /\ UNCHANGED <<match_json, player, match_events, match_scoreboards, team_caps, mpc, last, readers>>

\* decode_events from the end of the loop
Finish ==
    /\ rd.pc = "loop"
    /\ End(rd.data, rd.pos)
    /\ rd' = DecodeEnd(rd)
    /\ UNCHANGED <<match_json, player, match_events, match_scoreboards, team_caps, mpc, last, readers>>

\* the rest of the loop body: match_events += ..., match_scoreboards.append(...)
Collect ==
    /\ rd.pc = "done"
    /\ match_events' = match_events \o rd.events
    /\ match_scoreboards' = Append(match_scoreboards, Scoreboard(rd))
    /\ rd' = [rd EXCEPT !.pc = "collected"]
    /\ UNCHANGED <<match_json, player, team_caps, mpc, last, readers>>

\* match_events = sorted(match_events, key = time)
SortMatch ==
    /\ mpc = "players"
    /\ rd.pc \in {"none", "collected"}
    /\ Len(match_scoreboards) = match_json.nplayers
    /\ match_events' = SortedByTime(match_events)
    /\ mpc' = "sorted"
    /\ UNCHANGED <<match_json, player, rd, match_scoreboards, team_caps, last, readers>>

AddCaptures ==
    /\ mpc = "sorted"
    /\ LET a == AddCurrentTeamCaptures(match_events)
       IN  /\ match_events' = a.match_events
           /\ team_caps' = a.team_caps
    /\ mpc' = "annotated"
    /\ UNCHANGED <<match_json, player, rd, match_scoreboards, last, readers>>

\* team_caps[player_team] raises KeyError for a team that is not a key
AddWinner ==
    /\ mpc = "annotated"
    /\ match_scoreboards' = AddWinnerToScoreboard(match_scoreboards, team_caps)
    /\ mpc' = IF AddWinnerRaises(match_scoreboards, team_caps) THEN "KeyError" ELSE "returned"
    /\ UNCHANGED <<match_json, player, rd, match_events, team_caps, last, readers>>

Next ==
    \/ NextPlayer
    \/ NextPlayerRaises
    \/ Start
    \/ Frame
    \/ Finish
    \/ Collect
    \/ SortMatch
    \/ AddCaptures
    \/ AddWinner

Spec == Init /\ [][Next]_vars

\* when each step of decode_events can be taken
StartEnabled == rd.pc = "start"
FrameEnabled == rd.pc = "loop" /\ ~End(rd.data, rd.pos)
FinishEnabled == rd.pc = "loop" /\ End(rd.data, rd.pos)

\* decode_events runs on: a step of it that can be taken is not put off for
\* ever.  These are WF_vars(Start), WF_vars(Frame) and WF_vars(Finish) with
\* ENABLED written out as the guard of the step, each step changing rd.
FairSpec ==
    /\ Spec
    /\ ([]<>(~StartEnabled) \/ []<><<Start>>_vars)
    /\ ([]<>(~FrameEnabled) \/ []<><<Frame>>_vars)
    /\ ([]<>(~FinishEnabled) \/ []<><<Finish>>_vars)

(***************************************************************************)
(* The bit cursor by itself: a LogReader over any buffer, standing at any  *)
(* position, on which any of its reads is called.  last holds the buffer,  *)
(* the position, and the read made last: its name, its argument, the       *)
(* position it started from and the value it returned.                     *)
(***************************************************************************)
\* the largest integer the model checker represents
MaxInt == Pow2(30) + (Pow2(30) - 1)

\* whether the value read_footer returns is at most MaxInt (Python's integers
\* have no such limit; the model leaves the larger values out)
FooterFits(data, pos) ==
    LET sel  == ReadFixed(data, pos, 2)
        free == (8 - (sel.pos % 8)) % 8
        bits == sel.val * 8 + free
    IN  ReadFixed(data, sel.pos, bits).val <= MaxInt - FooterMinimum(free, bits, 0)

InitCursor ==
    /\ match_json = [duration |-> 1, nplayers |-> 0, date |-> "timestamp"]
    /\ readers = <<>>
    /\ player = NoPlayer
    /\ rd = NoReader
    /\ match_events = <<>>
    /\ match_scoreboards = <<>>
    /\ team_caps = <<>>
    /\ mpc = "cursor"
    /\ \E data \in SeqsUpTo(Alphabet(NByteVals), RdBytes) :
          \E pos \in 0..(8 * Len(data) + PastEnd) :
             last = [NoCursor EXCEPT !.data = data, !.pos = pos]

\* a read starts from a position of the range the model covers
CanRead == mpc = "cursor" /\ last.pos <= 8 * Len(last.data) + PastEnd

AfterRead(op, arg, res) ==
    /\ last' = [data |-> last.data, pos |-> res.pos, op |-> op, arg |-> arg,
                from |-> last.pos, val |-> res.val]
    /\ UNCHANGED <<match_json, player, rd, match_events, match_scoreboards, team_caps, mpc,
                 readers>>

CursorBool ==
    /\ CanRead
    /\ AfterRead("bool", 0, ReadBool(last.data, last.pos))

CursorFixed ==
    /\ CanRead
    /\ \E n \in 0..MaxWidth : AfterRead("fixed", n, ReadFixed(last.data, last.pos, n))

\* the argument recorded tells whether the loop was cut (1) or ended (0)
CursorTally ==
    /\ CanRead
    /\ LET t == ReadTally(last.data, last.pos)
       IN  AfterRead("tally", IF t.cut THEN 1 ELSE 0, t)

CursorFooter ==
    /\ CanRead
    /\ FooterFits(last.data, last.pos)
    /\ AfterRead("footer", 0, ReadFooter(last.data, last.pos))

NextCursor ==
    \/ CursorBool
    \/ CursorFixed
    \/ CursorTally
    \/ CursorFooter

SpecCursor == InitCursor /\ [][NextCursor]_vars

(***************************************************************************)
(* The readers of a match decoded side by side: one PlayerLogReader per    *)
(* player, all constructed, the steps of their decode_events calls taken   *)
(* in any order.  readers[i] holds the player record and its reader.       *)
(***************************************************************************)
ParPayloads == SeqsUpTo({ParByteList[k] : k \in 1..NParByteVals}, ParBytes)

\* an events list that is one object shared by every reader
SetSelfSharedEvents(rs, i, r) ==
    [j \in DOMAIN rs |-> IF j = i THEN [rs[j] EXCEPT !.rd = r]
                                  ELSE [rs[j] EXCEPT !.rd.events = r.events]]

\* the attributes a method assigns are those of self: every attribute of a
\* reader, its events list included, is created by its own __init__
SetSelf(rs, i, r) == [rs EXCEPT ![i].rd = r]

InitPar ==
    /\ match_json = [duration |-> 1, nplayers |-> ParPlayers, date |-> "timestamp"]
    /\ readers \in [1..ParPlayers ->
                       {[player |-> [events |-> data, team |-> team, name |-> 0],
                         rd |-> NewReader(data, 0, team, 1)] :
                            data \in ParPayloads, team \in Teams}]
    /\ player = NoPlayer
    /\ rd = NoReader
    /\ match_events = <<>>
    /\ match_scoreboards = <<>>
    /\ team_caps = <<>>
    /\ mpc = "side by side"
    /\ last = NoCursor

ParUnchanged ==
    UNCHANGED <<match_json, player, rd, match_events, match_scoreboards, team_caps, mpc, last>>

ParStart ==
    /\ mpc = "side by side"
    /\ \E i \in DOMAIN readers :
          /\ readers[i].rd.pc = "start"
          /\ readers' = SetSelf(readers, i, DecodeStart(readers[i].rd))
    /\ ParUnchanged

ParFrame ==
    /\ mpc = "side by side"
    /\ \E i \in DOMAIN readers :
          /\ readers[i].rd.pc = "loop"
          /\ ~End(readers[i].rd.data, readers[i].rd.pos)
          /\ readers' = SetSelf(readers, i, DecodeTurn(readers[i].rd))
    /\ ParUnchanged

ParFinish ==
    /\ mpc = "side by side"
    /\ \E i \in DOMAIN readers :
          /\ readers[i].rd.pc = "loop"
          /\ End(readers[i].rd.data, readers[i].rd.pos)
          /\ readers' = SetSelf(readers, i, DecodeEnd(readers[i].rd))
    /\ ParUnchanged

NextPar ==
    \/ ParStart
    \/ ParFrame
    \/ ParFinish

SpecPar == InitPar /\ [][NextPar]_vars

(***************************************************************************)
(* scoreboard by itself: a reader whose decode has returned any list of     *)
(* events sorted by time, on which scoreboard is called.                    *)
(***************************************************************************)
\* the lists of n times that do not decrease
SortedTimes(n) ==
    {times \in [1..n -> 0..MeasureTime] : \A i \in 1..(n - 1) : times[i] <= times[i + 1]}

\* a reader after decode_events, with the events of the given kinds and times
MeasuredReader(kinds, times) ==
    [NewReader(<<>>, 1, red_team, MeasureTime) EXCEPT
        !.pc = "done",
        !.events = [i \in DOMAIN kinds |->
                       Event(NewReader(<<>>, 1, red_team, MeasureTime), kinds[i], times[i],
                             no_flag, pup_none, None, None, None, None)]]

InitMeasure ==
    /\ match_json = [duration |-> MeasureTime, nplayers |-> 1, date |-> "timestamp"]
    /\ readers = <<>>
    /\ player = NoPlayer
    /\ \E n \in 0..MeasureLen :
          \E kinds \in [1..n -> {MeasureKindList[k] : k \in 1..NMeasureKinds}],
             times \in SortedTimes(n) :
                rd = MeasuredReader(kinds, times)
    /\ match_events = <<>>
    /\ match_scoreboards = <<>>
    /\ team_caps = <<>>
    /\ mpc = "measure"
    /\ last = NoCursor

\* player_reader.scoreboard()
ScoreEvents ==
    /\ mpc = "measure"
    /\ rd.pc = "done"
    /\ match_scoreboards' = <<Scoreboard(rd)>>
    /\ rd' = [rd EXCEPT !.pc = "collected"]
    /\ UNCHANGED <<match_json, player, match_events, team_caps, mpc, last, readers>>

NextMeasure == ScoreEvents

SpecMeasure == InitMeasure /\ [][NextMeasure]_vars

(***************************************************************************)
(* add_winner_to_scoreboard called from outside generate_match_info as      *)
(* well: any scoreboards and any capture totals, next to the runs of        *)
(* generate_match_info.                                                     *)
(***************************************************************************)
\* the scoreboard of a player of the given team that did nothing
IdleScoreboard(name, team) == Scoreboard(NewReader(<<>>, name, team, 1))

\* the capture totals there can be: any teams as keys, any totals up to MaxCaps
CapsTables == UNION {[T -> 0..MaxCaps] : T \in SUBSET Teams}

InitWinner ==
    /\ match_json = [duration |-> 1, nplayers |-> 0, date |-> "timestamp"]
    /\ readers = <<>>
    /\ player = NoPlayer
    /\ rd = NoReader
    /\ match_events = <<>>
    /\ \E teams \in SeqsUpTo(Teams, MaxBoards) :
          match_scoreboards = [i \in DOMAIN teams |-> IdleScoreboard(i, teams[i])]
    /\ team_caps \in CapsTables
    /\ mpc = "annotated"
    /\ last = NoCursor

\* a run of generate_match_info, or a call of add_winner_to_scoreboard alone
InitCalls == Init \/ InitWinner

SpecWinner == InitCalls /\ [][Next]_vars

(***************************************************************************)
(* What the buffer holds, told without the cursor: the bits of each byte,  *)
(* most significant first, then zero bits for ever.                        *)
(***************************************************************************)
ByteBits(b) == <<(b \div 128) % 2, (b \div 64) % 2, (b \div 32) % 2, (b \div 16) % 2,
                 (b \div 8) % 2, (b \div 4) % 2, (b \div 2) % 2, b % 2>>

RECURSIVE DataBits(_)
DataBits(data) ==
    IF data = <<>> THEN <<>> ELSE ByteBits(Head(data)) \o DataBits(Tail(data))

\* the bit at position i (counted from 0) of the buffer extended with zeros
ExtBit(data, i) == IF i < 8 * Len(data) THEN DataBits(data)[i + 1] ELSE 0

\* the number the n bits from position i on spell, most significant first
RECURSIVE BitsValue(_, _, _)
BitsValue(data, i, n) ==
    IF n = 0 THEN 0
    ELSE ExtBit(data, i) * Pow2(n - 1) + BitsValue(data, i + 1, n - 1)

\* C2: read_fixed(n) returns the number the next n bits of the buffer, extended
\* with zero bits, spell most significant first; it is below 2^n; the position
\* moves on by exactly n (by 1 for read_bool, which returns the bit under the
\* cursor), also from a position at or past the end; it never moves back.
ReadFixedIsMsbFirst ==
    /\ last.op = "fixed" =>
          /\ last.val = BitsValue(last.data, last.from, last.arg)
          /\ last.val < Pow2(last.arg)
          /\ last.pos = last.from + last.arg
    /\ last.op = "bool" =>
          /\ last.val = ExtBit(last.data, last.from)
          /\ last.pos = last.from + 1
    /\ last.op # "none" => last.pos >= last.from

\* a read_fixed of more than a byte that starts inside a byte, runs over the
\* end of the buffer and returns a value that is not 0
ReadFixedOverTheEnd ==
    /\ last.op = "fixed"
    /\ last.arg > 8
    /\ last.from % 8 # 0
    /\ last.from < 8 * Len(last.data)
    /\ last.from + last.arg > 8 * Len(last.data)
    /\ last.val > 0

\* C3: if the next k bits are 1 and the bit after them is 0 or lies past the
\* end of the buffer, read_tally returns k and leaves the position k + 1 further on.
ReadTallyCountsOnes ==
    last.op = "tally" =>
       \A k \in 0..(8 * Len(last.data) + PastEnd) :
          ( /\ \A j \in 0..(k - 1) : ExtBit(last.data, last.from + j) = 1
            /\ ExtBit(last.data, last.from + k) = 0 )
          => /\ last.val = k
             /\ last.pos = last.from + k + 1
             /\ last.arg = 0

\* a run of at least three 1 bits that goes up to the end of the buffer: the
\* zero bit that ends it lies past the end
ReadTallyRunToTheEnd ==
    /\ last.op = "tally"
    /\ last.val >= 3
    /\ last.from + last.val = 8 * Len(last.data)

\* the bytes a sequence of bits (a multiple of 8 of them) packs into
RECURSIVE PackBits(_)
PackBits(bits) ==
    IF bits = <<>> THEN <<>>
    ELSE <<bits[1] * 128 + bits[2] * 64 + bits[3] * 32 + bits[4] * 16
           + bits[5] * 8 + bits[6] * 4 + bits[7] * 2 + bits[8]>>
         \o PackBits(SubSeq(bits, 9, Len(bits)))

\* where a class selector stands in its byte when a bits follow it up to the
\* byte boundary
SelectorAt(a) == (14 - a) % 8

\* a buffer holding, at SelectorAt(a), the selector of class c followed by
\* 8c + a bits that are all v
FooterBuffer(c, a, v) ==
    PackBits([i \in 1..SelectorAt(a) |-> 0] \o <<c \div 2, c % 2>>
             \o [i \in 1..(8 * c + a) |-> v])

\* what read_footer returns on that buffer: the smallest value of class c at
\* alignment a for v = 0, the largest for v = 1
FooterOf(c, a, v) == ReadFooter(FooterBuffer(c, a, v), SelectorAt(a)).val

\* C4: at each alignment a, class 0 starts at 0, the values of class c are
\* its smallest value plus the number the 8c + a bits after the selector
\* spell, up to its largest value, and the smallest value of class c + 1 is one
\* more than the largest value of class c.
FooterClassesContiguous ==
    last.op = "footer" =>
       LET c == BitsValue(last.data, last.from, 2)
           a == (8 - ((last.from + 2) % 8)) % 8
       IN  /\ FooterOf(0, a, 0) = 0
           /\ last.val = FooterOf(c, a, 0) + BitsValue(last.data, last.from + 2, 8 * c + a)
           /\ (c = 3 /\ a = 7) \/ last.val <= FooterOf(c, a, 1)
           /\ \A k \in 0..2 :
                 /\ FooterOf(k, a, 0) <= FooterOf(k, a, 1)
                 /\ FooterOf(k + 1, a, 0) = FooterOf(k, a, 1) + 1

\* a footer of class 2 read at an alignment that is not 0, above the smallest
\* value of its class
FooterOfClassTwo ==
    /\ last.op = "footer"
    /\ BitsValue(last.data, last.from, 2) = 2
    /\ (last.from + 2) % 8 # 0
    /\ last.val > FooterOf(2, (8 - ((last.from + 2) % 8)) % 8, 0)

(***************************************************************************)
(* The decoder and the aggregation.                                        *)
(***************************************************************************)
Kinds(events) == {events[i].event : i \in DOMAIN events}

Decoding == rd.pc \in {"start", "loop"}
Decoded == rd.pc \in {"done", "collected"}

\* C1: decode_events terminates on every payload and starting team: no
\* read_tally loop runs on for ever, every turn of the frame loop moves the
\* cursor on, and the call that was entered returns.
DecodeTerminates ==
    /\ [](rd.pc # "hung")
    /\ [][rd.pc = "loop" /\ rd'.pc = "loop" => rd'.pos > rd.pos]_vars
    /\ (rd.pc = "start") ~> (rd.pc = "done")

\* the decode of a payload of three bytes or more that are all ones, whose
\* first frame runs over the end of the payload
DecodedAllOnes ==
    /\ rd.pc = "done"
    /\ Len(rd.data) >= 3
    /\ \A i \in DOMAIN rd.data : rd.data[i] = 255
    /\ rd.pos > 8 * Len(rd.data)
    /\ rd.returns > 8

Zeros(k) == [i \in 1..k |-> 0]

\* whether the buffer holds only zero bits from position pos on
ZeroFrom(data, pos) == \A i \in pos..(8 * Len(data) - 1) : ExtBit(data, i) = 0

\* C5: the payload followed by zero bytes decodes to the same events as the
\* payload, and a frame read from zero bits only logs no event and changes
\* nothing of the player's state but the time.
ZeroPaddingKeepsEvents ==
    /\ rd.pc = "done" =>
          \A k \in 1..MaxPad :
             DecodeEvents(NewReader(player.events \o Zeros(k), player.name, player.team,
                                    match_json.duration)).events = rd.events
    /\ (rd.pc = "loop" /\ ~End(rd.data, rd.pos) /\ ZeroFrom(rd.data, rd.pos)) =>
          LET f == DecodeTurn(rd)
          IN  /\ f.events = rd.events
              /\ <<f.team, f.flag, f.powers, f.prevent, f.button, f.block>>
                   = <<rd.team, rd.flag, rd.powers, rd.prevent, rd.button, rd.block>>
              /\ f.time > rd.time

\* a decode whose last frame ran over the end of the payload and that logged
\* a grab while the player held a power-up at the end
DecodedOverTheEnd ==
    /\ rd.pc = "done"
    /\ rd.pos > 8 * Len(rd.data)
    /\ "grab" \in Kinds(rd.events)
    /\ rd.powers # pup_none

\* the flag held after the event e, held before it: a grab gives the flag
\* it carries, a capture, a drop and a switch take the flag
HeldNext(e, held) ==
    CASE e.event = "grab" -> e.flag
      [] e.event \in {"capture", "drop", "switch"} -> no_flag
      [] OTHER -> held

\* the flag held after the events, starting with held
RECURSIVE HeldAfter(_, _)
HeldAfter(events, held) ==
    IF events = <<>> THEN held
    ELSE HeldAfter(Tail(events), HeldNext(Head(events), held))

\* whether the events keep to the cycle, starting with held: a grab needs no
\* flag held and gives one, a capture and a drop need the flag they carry
\* held, a pop needs none held
RECURSIVE KeepsCycle(_, _)
KeepsCycle(events, held) ==
    \/ events = <<>>
    \/ LET e == Head(events)
       IN  /\ e.event = "grab" => held = no_flag /\ e.flag # no_flag
           /\ e.event \in {"capture", "drop"} => held # no_flag /\ e.flag = held
           /\ e.event = "pop" => held = no_flag
           /\ KeepsCycle(Tail(events), HeldNext(e, held))

\* C6: in the events of a player the flag goes none -> held -> none: grab
\* only with no flag held, leaving one held; capture and drop only with a flag
\* held, leaving none; pop only with none held.  The flag so followed is the
\* decoder's.
FlagCycle ==
    rd.pc \in {"loop", "done", "collected"} =>
       /\ KeepsCycle(rd.events, no_flag)
       /\ HeldAfter(rd.events, no_flag) = rd.flag

\* a decode that went twice round the cycle: grab, capture, grab, drop
TwiceRoundTheCycle ==
    /\ rd.pc = "done"
    /\ \E i, j, k, l \in DOMAIN rd.events :
          /\ i < j /\ j < k /\ k < l
          /\ rd.events[i].event = "grab"
          /\ rd.events[j].event = "capture"
          /\ rd.events[k].event = "grab"
          /\ rd.events[l].event = "drop"

EndEvents(events) == SelectSeq(events, LAMBDA e : e.event = "end")

\* C7: no end event while the frames are decoded; after the decode exactly
\* one, at the match duration, with the flag, the powers and the team the
\* decoder has after the last frame.
OneEndEvent ==
    /\ Decoding => EndEvents(rd.events) = <<>>
    /\ Decoded =>
          /\ End(rd.data, rd.pos)
          /\ Len(EndEvents(rd.events)) = 1
          /\ LET e == EndEvents(rd.events)[1]
             IN  /\ e.time = match_json.duration
                 /\ e.flag = rd.flag
                 /\ e.powers = rd.powers
                 /\ e.team = rd.team

\* a decode of two frames after which the decoder's time is not the match
\* duration and the player holds a flag
DecodedHoldingFlag ==
    /\ rd.pc = "done"
    /\ rd.time > match_json.duration
    /\ rd.flag # no_flag
    /\ Len(rd.events) > 2

Times(events) == {events[i].time : i \in DOMAIN events}

AtTime(events, t) == SelectSeq(events, LAMBDA e : e.time = t)

\* out holds the events of in by time, those of one time in the order of in
StableSortOf(out, in) ==
    /\ Len(out) = Len(in)
    /\ \A i, j \in DOMAIN out : i < j => out[i].time <= out[j].time
    /\ \A t \in Times(in) \cup Times(out) : AtTime(out, t) = AtTime(in, t)

\* C8: decode_events returns the events it logged (the end event last) by
\* time, those of one time in the order they were logged; the merged sequence
\* holds the concatenation by time, the events of one time in the order of the
\* concatenation, so those of an earlier player before those of a later one.
SortsAreStable ==
    [][ /\ (rd.pc = "loop" /\ rd'.pc = "done") =>
              StableSortOf(rd'.events, rd.events \o EndEvents(rd'.events))
        /\ (mpc = "players" /\ mpc' = "sorted") =>
              /\ StableSortOf(match_events', match_events)
              /\ \A i, j \in DOMAIN match_events' :
                    (i < j /\ match_events'[i].time = match_events'[j].time)
                    => match_events'[i].name <= match_events'[j].name ]_vars

\* a merged sequence in which an event of the second player comes before an
\* event of the first, and two events of one time are in the players' order
MergedWithTies ==
    /\ mpc = "sorted"
    /\ \E i, j \in DOMAIN match_events :
          /\ i < j
          /\ match_events[i].name = 2 /\ match_events[j].name = 1
    /\ \E i, j \in DOMAIN match_events :
          /\ i < j
          /\ match_events[i].time = match_events[j].time
          /\ match_events[i].name = 1 /\ match_events[j].name = 2
          /\ match_events[i].event # "end"

\* the captures of team t among the first i events
CapturesUpTo(events, i, t) ==
    Cardinality({j \in 1..i : events[j].event = "capture" /\ events[j].team = t})

\* C9: after add_current_team_captures every event carries, for every team
\* found in an event, the number of capture events of that team up to and
\* including it (a flagless_capture does not count); the totals returned are
\* the annotation of the last event.
RunningScores ==
    mpc \in {"annotated", "returned"} =>
       /\ \A i \in DOMAIN match_events :
             /\ DOMAIN match_events[i].score = AllTeams(match_events)
             /\ \A t \in AllTeams(match_events) :
                   match_events[i].score[t] = CapturesUpTo(match_events, i, t)
       /\ DOMAIN team_caps = AllTeams(match_events)
       /\ match_events # <<>> => team_caps = match_events[Len(match_events)].score

\* an annotated match with events of two teams, a capture, and a
\* flagless_capture of a team before its first capture
AnnotatedWithFlagless ==
    /\ mpc = "annotated"
    /\ Cardinality(AllTeams(match_events)) >= 2
    /\ \E t \in DOMAIN team_caps : team_caps[t] >= 1
    /\ \E i \in DOMAIN match_events :
          /\ match_events[i].event = "flagless_capture"
          /\ match_events[i].score[match_events[i].team] = 0

\* the totals of the teams other than team t
OtherTotals(caps, t) == {caps[u] : u \in DOMAIN caps \ {t}}

\* C10: add_winner_to_scoreboard gives every scoreboard the total of its team
\* and win_loss 1 if the total is above that of every other team found, 0.5
\* if not and it equals that of every other team, 0 otherwise.
WinnerRule ==
    mpc = "returned" =>
       \A i \in DOMAIN match_scoreboards :
          LET sb     == match_scoreboards[i]
              own    == team_caps[sb.team]
              others == OtherTotals(team_caps, sb.team)
          IN  /\ sb.final_team_score = own
              /\ sb.win_loss = WIN <=> (\A x \in others : x < own)
              /\ sb.win_loss = DRAW <=> (others = {own})
              /\ sb.win_loss = LOSS <=>
                    (\E x \in others : x > own) \/ (own \in others /\ others # {own})
              /\ sb.win_loss \in {WIN, DRAW, LOSS}

\* a match won by the team of one player and lost by the team of the other
WonAndLost ==
    /\ mpc = "returned"
    /\ \E i, j \in DOMAIN match_scoreboards :
          /\ match_scoreboards[i].win_loss = WIN
          /\ match_scoreboards[j].win_loss = LOSS
          /\ match_scoreboards[i].final_team_score > match_scoreboards[j].final_team_score

(***************************************************************************)
(* One turn of the frame loop, seen as a step: the events it emitted are   *)
(* those appended to the reader's list, which is not sorted until the      *)
(* decode ends.                                                            *)
(***************************************************************************)
FrameTaken == rd.pc = "loop" /\ rd'.pc = "loop" /\ rd' # rd

Emitted == SubSeq(rd'.events, Len(rd.events) + 1, Len(rd'.events))

EmittedKinds == [i \in DOMAIN Emitted |-> Emitted[i].event]

\* C11 as stated: every event of a player, and the player's scoreboard, carry
\* the player's starting team, whatever joins and switches the decode meets.
EventsCarryStartingTeam ==
    /\ \A i \in DOMAIN rd.events : rd.events[i].team = player.team
    /\ rd.pc = "collected" => match_scoreboards[Len(match_scoreboards)].team = player.team

\* C11 amended: every event carries the player's name and the team the
\* decoder has when the event is logged: the starting team for start, the
\* team before the frame for the events of a frame (the joined team when the
\* frame joins), the team after the last frame for end and for the scoreboard.
EventsCarryCurrentTeam ==
    [][/\ rd.pc = "start" /\ rd'.pc = "loop" =>
             \A i \in DOMAIN rd'.events :
                rd'.events[i].team = player.team /\ rd'.events[i].name = player.name
       /\ FrameTaken =>
             \A i \in DOMAIN Emitted :
                /\ Emitted[i].name = player.name
                /\ Emitted[i].team = IF rd.team = no_team THEN rd'.team ELSE rd.team
       /\ rd.pc = "loop" /\ rd'.pc = "done" =>
             /\ EndEvents(rd'.events)[1].team = rd.team
             /\ EndEvents(rd'.events)[1].name = player.name
       /\ rd.pc = "done" /\ rd'.pc = "collected" =>
             /\ match_scoreboards'[Len(match_scoreboards')].team = rd.team
             /\ match_scoreboards'[Len(match_scoreboards')].name = player.name]_vars

\* the decode of a player who starts without a team, joins one and grabs
DecodedJoinAndGrab ==
    /\ rd.pc = "collected"
    /\ player.team = no_team
    /\ \E i, j \in DOMAIN rd.events :
          /\ i < j
          /\ rd.events[i].event = "join"
          /\ rd.events[j].event = "grab"
          /\ rd.events[j].team # player.team
    /\ match_scoreboards[Len(match_scoreboards)].team # player.team

\* the reader of a player as its own decode_events call leaves it, step by step
SoloStep(r) ==
    IF r.pc = "start" THEN DecodeStart(r)
    ELSE IF End(r.data, r.pos) THEN DecodeEnd(r) ELSE DecodeTurn(r)

\* whether the decode that runs alone from r passes through s
RECURSIVE SoloReaches(_, _)
SoloReaches(r, s) ==
    \/ r = s
    \/ r.pc \in {"start", "loop"} /\ SoloReaches(SoloStep(r), s)

SoloReader(p) == NewReader(p.events, p.name, p.team, match_json.duration)

\* C12: whatever the order in which the steps of the decodes of the players
\* of a match are taken, each reader is at every moment in a state of its
\* own decode run alone, and ends with the events and the state of that run.
DecodesDoNotInterfere ==
    \A i \in DOMAIN readers :
       /\ SoloReaches(SoloReader(readers[i].player), readers[i].rd)
       /\ readers[i].rd.pc = "done" =>
             readers[i].rd = DecodeEvents(SoloReader(readers[i].player))

\* two readers that have each decoded a frame and logged events, and have
\* frames left
BothMidDecode ==
    /\ mpc = "side by side"
    /\ \A i \in DOMAIN readers :
          /\ readers[i].rd.pc = "loop"
          /\ readers[i].rd.pos > 0
          /\ ~End(readers[i].rd.data, readers[i].rd.pos)
          /\ readers[i].rd.events # <<>>
    /\ readers[1].rd.events # readers[2].rd.events

\* C13: with a match date that is missing or does not convert, the reader
\* fails while it is constructed: its cursor stands at 0, it has no event,
\* not even start, its decode is never entered, and the match yields neither
\* events nor scoreboards.
FailsAtEntry ==
    match_json.date # "timestamp" =>
       /\ rd.pc \in {"none", "raised"}
       /\ rd.pos = 0
       /\ rd.events = <<>>
       /\ match_events = <<>>
       /\ match_scoreboards = <<>>
       /\ rd.pc = "raised" <=> mpc = "raised"

\* the reader of a player with a starting team and a payload, whose
\* construction raised on a date that is not a number
RaisedBeforeStart ==
    /\ mpc = "raised"
    /\ match_json.date = "text"
    /\ player.team # no_team
    /\ Len(rd.data) >= 2
    /\ rd.pos = 0
    /\ rd.events = <<>>

\* C14: add_current_team_captures applied to the merged sequence it has
\* already annotated gives the same per-event scores and the same totals.
AnnotationIdempotent ==
    mpc \in {"annotated", "returned", "KeyError"} =>
       AddCurrentTeamCaptures(match_events) =
          [match_events |-> match_events, team_caps |-> team_caps]

\* an annotated match of two players in which the score changes on the way:
\* the first event and the last carry different scores
AnnotatedScoreMoves ==
    /\ mpc = "annotated"
    /\ Len(match_scoreboards) = 2
    /\ match_events # <<>>
    /\ match_events[1].score # match_events[Len(match_events)].score
    /\ \E i \in DOMAIN match_events : match_events[i].name = 2

\* C15: every switch event carries the team before the frame as old_team and
\* the other team, 3 - old_team, as new_team; after the frame the decoder is
\* on that new team and holds no flag.
SwitchNamesOtherTeam ==
    [][FrameTaken =>
          \A i \in DOMAIN Emitted :
             Emitted[i].event = "switch" =>
                /\ Emitted[i].old_team = rd.team
                /\ Emitted[i].new_team = 3 - Emitted[i].old_team
                /\ rd'.team = Emitted[i].new_team
                /\ rd'.flag = no_flag]_vars

\* whether the last event among quit, join, switch and start is a quit
RECURSIVE LastTeamEventIsQuit(_)
LastTeamEventIsQuit(events) ==
    IF events = <<>> THEN FALSE
    ELSE IF events[Len(events)].event = "quit" THEN TRUE
    ELSE IF events[Len(events)].event \in {"join", "switch", "start"} THEN FALSE
    ELSE LastTeamEventIsQuit(SubSeq(events, 1, Len(events) - 1))

\* C16: after a frame that emits a quit the decoder is on no team, so that a
\* later frame with the transition bit set joins: it emits neither another
\* quit nor a switch.
QuitLeavesNoTeam ==
    [][FrameTaken =>
          /\ (\E i \in DOMAIN Emitted : Emitted[i].event = "quit") => rd'.team = no_team
          /\ LastTeamEventIsQuit(rd.events) =>
                \A i \in DOMAIN Emitted : Emitted[i].event \notin {"quit", "switch"}]_vars

\* the place of a kind of event in the order of _log_events
KindRank(kind) ==
    CASE kind = "join" -> 1
      [] kind = "return" -> 2
      [] kind = "tag" -> 3
      [] kind = "grab" -> 4
      [] kind \in {"capture", "flagless_capture"} -> 5
      [] kind \in {"power_down", "power_up"} -> 6
      [] kind = "duplicate_powerup" -> 7
      [] kind \in {"prevent_start", "prevent_stop"} -> 8
      [] kind \in {"button_start", "button_stop"} -> 9
      [] kind \in {"block_start", "block_stop"} -> 10
      [] kind \in {"drop", "pop"} -> 11
      [] kind \in {"quit", "switch"} -> 12
      [] OTHER -> 0

\* the places that hold several events of a frame: returns, tags, power
\* events and duplicate powerups
RepeatedRanks == {2, 3, 6, 7}

\* C17: the events of one frame all carry the time the frame's delta leaves,
\* which is later than the time before the frame, and come in the order join,
\* returns, tags, grab, capture-type, power events, duplicate powerups,
\* prevent, button, block, drop or pop, quit or switch, the places other than
\* returns, tags, power events and duplicates holding at most one event.
FrameEventsInFixedOrder ==
    [][FrameTaken =>
          /\ rd'.time > rd.time
          /\ \A i \in DOMAIN Emitted :
                /\ Emitted[i].time = rd'.time
                /\ KindRank(Emitted[i].event) \in 1..12
          /\ \A i, j \in DOMAIN Emitted :
                i < j =>
                   /\ KindRank(Emitted[i].event) <= KindRank(Emitted[j].event)
                   /\ KindRank(Emitted[i].event) = KindRank(Emitted[j].event) =>
                         KindRank(Emitted[i].event) \in RepeatedRanks]_vars

\* a second or later frame that has logged events of four places of the
\* order or more, a grab and a toggle among them
FrameOfManyKinds ==
    /\ rd.pc = "loop"
    /\ \E k \in DOMAIN rd.events : rd.events[k].time \in 1..(rd.time - 1)
    /\ LET now == {k \in DOMAIN rd.events : rd.events[k].time = rd.time}
       IN  /\ Cardinality({KindRank(rd.events[k].event) : k \in now}) >= 4
           /\ \E k \in now : rd.events[k].event = "grab"
           /\ \E k \in now : KindRank(rd.events[k].event) \in 8..10

\* the power events among the events of the frame taken, in their order
PowerEvents == SelectSeq(Emitted, LAMBDA e : e.event \in {"power_down", "power_up"})

\* the powers held once the first k power events of the frame have applied
RECURSIVE PowersAfter(_, _)
PowersAfter(powers, k) ==
    IF k = 0 THEN powers
    ELSE IF PowerEvents[k].event = "power_down"
    THEN PowersAfter(powers, k - 1) - PowerEvents[k].pup
    ELSE PowersAfter(powers, k - 1) + PowerEvents[k].pup

\* C18 as stated: within a frame no power_up is emitted ahead of a power_down.
PowerDownsBeforePowerUps ==
    [][FrameTaken =>
          \A i, j \in DOMAIN Emitted :
             i < j => ~(Emitted[i].event = "power_up" /\ Emitted[j].event = "power_down")]_vars

\* C18 amended: within a frame the power events come in increasing order of
\* power bit (1, 2, 4, 8), one for each bit flagged: power_down for a bit the
\* player held and the frame takes, power_up for a bit the player did not
\* hold and the frame grants; each carries the powers held once it has
\* applied.  A power_up of a lower bit comes ahead of a power_down of a
\* higher bit.
PowerEventsInBitOrder ==
    [][FrameTaken =>
          /\ \A k \in DOMAIN PowerEvents :
                /\ PowerEvents[k].pup \in {1, 2, 4, 8}
                /\ PowerEvents[k].event = "power_down" =>
                      HasBit(rd.powers, PowerEvents[k].pup) /\ HasBit(rd'.powers_down, PowerEvents[k].pup)
                /\ PowerEvents[k].event = "power_up" =>
                      ~HasBit(rd.powers, PowerEvents[k].pup) /\ HasBit(rd'.powers_up, PowerEvents[k].pup)
                /\ PowerEvents[k].new_powers = PowersAfter(rd.powers, k)
          /\ \A i, j \in DOMAIN PowerEvents :
                i < j => PowerEvents[i].pup < PowerEvents[j].pup
          /\ \A bit \in {1, 2, 4, 8} :
                HasBit(rd'.powers_down, bit) \/ HasBit(rd'.powers_up, bit) =>
                   \E k \in DOMAIN PowerEvents : PowerEvents[k].pup = bit]_vars

\* a frame that has granted one power and taken a higher one: its power_up
\* stands ahead of its power_down
PowerUpAheadOfPowerDown ==
    /\ rd.pc = "loop"
    /\ \E i, j \in DOMAIN rd.events :
          /\ i < j
          /\ rd.events[i].time = rd.time
          /\ rd.events[j].time = rd.time
          /\ rd.events[i].event = "power_up"
          /\ rd.events[j].event = "power_down"
          /\ rd.events[i].pup < rd.events[j].pup

\* the grab events among the events of the frame taken
GrabEvents == SelectSeq(Emitted, LAMBDA e : e.event = "grab")

\* the reader once the frame taken has read its fields up to keep
AtKeep == ReadKeep(ReadCaptures(ReadGrab(ReadTags(ReadReturns(ReadDropPop(ReadNewTeam(rd)))))))

\* the rest of a frame from the powerups tally on, and its events
RestOfFrame(s) ==
    LogFrame(ReadTime(ReadToggleBlock(ReadToggleButton(ReadTogglePrevent(
    ReadPowerBits(ReadPowerups(s)))))))

\* keep as the frame taken decoded it: the capture block sets keep after a
\* capture event, which it logs only when keep was false
KeptAtDecode == rd'.keep /\ \A i \in DOMAIN Emitted : Emitted[i].event # "capture"

\* C19: a frame grabs at most once, and only with no flag held; the flag of
\* its grab event is 1 + the number the two bits behind the keep field spell,
\* a value in 1..4, when keep was decoded true, the rest of the frame being
\* read from behind those two bits; it is the temporary kind 5 when keep was
\* decoded false, the rest of the frame being read from where keep left the
\* cursor.  A frame with dropPop set, or that quits or switches, has kind 5.
GrabFlagFollowsKeep ==
    [][FrameTaken /\ GrabEvents # <<>> =>
          /\ Len(GrabEvents) = 1
          /\ rd.flag = no_flag
          /\ KeptAtDecode = AtKeep.keep
          /\ KeptAtDecode =>
                /\ GrabEvents[1].flag = 1 + BitsValue(rd.data, AtKeep.pos, 2)
                /\ GrabEvents[1].flag \in 1..4
                /\ rd' = RestOfFrame([AtKeep EXCEPT !.pos = @ + 2, !.newFlag = GrabEvents[1].flag])
          /\ ~KeptAtDecode =>
                /\ GrabEvents[1].flag = temporary_flag
                /\ rd' = RestOfFrame([AtKeep EXCEPT !.newFlag = temporary_flag])
          /\ (\/ rd'.dropPop = 1
              \/ \E i \in DOMAIN Emitted : Emitted[i].event \in {"quit", "switch"}) =>
                GrabEvents[1].flag = temporary_flag]_vars

\* a decode that has grabbed a temporary flag in a frame whose keep was false
\* and, in its last frame, a flag of a kind above 1 read from the buffer
GrabbedTemporaryAndKept ==
    /\ rd.pc = "loop"
    /\ rd.keep
    /\ \E i, j \in DOMAIN rd.events :
          /\ i < j
          /\ rd.events[i].event = "grab"
          /\ rd.events[i].flag = temporary_flag
          /\ rd.events[j].event = "grab"
          /\ rd.events[j].flag \in 2..4
          /\ rd.events[j].time = rd.time

\* the capture and flagless_capture events among the events of the frame taken
CaptureEvents == SelectSeq(Emitted, LAMBDA e : e.event \in {"capture", "flagless_capture"})

\* the flag held when the capture block of the frame taken is entered: the
\* flag grabbed in the frame, else the flag held before it
HeldAtCapture == IF GrabEvents # <<>> THEN GrabEvents[1].flag ELSE rd.flag

LastOn(events, on, j) ==
    LET ons == {i \in 1..(j - 1) : events[i].event \in on}
    IN  IF ons = {} THEN 0 ELSE CHOOSE i \in ons : \A k \in ons : k <= i

\* the places of the off-kind events that find the tracker open: an on-kind
\* event stands ahead of them and no off-kind event stands in between
Closing(events, on, off) ==
    {j \in DOMAIN events :
        /\ events[j].event \in off
        /\ LastOn(events, on, j) # 0
        /\ \A k \in (LastOn(events, on, j) + 1)..(j - 1) : events[k].event \notin off}

\* what a single-slot Idle/Open tracker appends: for each closing event, in
\* their order, its time less the time of the last on-kind event ahead of it
TrackerDurations(events, on, off) ==
    LET closing == Closing(events, on, off)
    IN  [n \in 1..Cardinality(closing) |->
            LET j == CHOOSE c \in closing : Cardinality({k \in closing : k <= c}) = n
            IN  events[j].time - events[LastOn(events, on, j)].time]

\* the on-kinds and off-kinds scoreboard measures durations between
HoldKinds == [on |-> {"grab"}, off |-> {"drop", "pop", "capture"}]
PreventKinds == [on |-> {"prevent_start"}, off |-> {"prevent_stop"}]
ButtonKinds == [on |-> {"button_start"}, off |-> {"button_stop"}]

\* C21: over the sorted events of a player, _measure_duration returns what
\* the single-slot tracker appends (an on-kind event sets the start and
\* overwrites an unclosed one, an off-kind event closes an open start and
\* does nothing when idle); every duration is 0 or more and there are at most
\* as many as off-kind events.  The scoreboard's holds, prevents and buttons
\* are these lists.
MeasureDurationIsTracker ==
    rd.pc = "collected" =>
       /\ \A kinds \in {HoldKinds, PreventKinds, ButtonKinds} :
             LET times == MeasureDuration(rd.events, kinds.on, kinds.off)
             IN  /\ times = TrackerDurations(rd.events, kinds.on, kinds.off)
                 /\ \A n \in DOMAIN times : times[n] >= 0
                 /\ Len(times) <= CountEvents(rd.events, kinds.off)
       /\ match_scoreboards[Len(match_scoreboards)].holds =
             TrackerDurations(rd.events, HoldKinds.on, HoldKinds.off)
       /\ match_scoreboards[Len(match_scoreboards)].prevents =
             TrackerDurations(rd.events, PreventKinds.on, PreventKinds.off)
       /\ match_scoreboards[Len(match_scoreboards)].buttons =
             TrackerDurations(rd.events, ButtonKinds.on, ButtonKinds.off)

\* a scoreboard over events in which an off-kind event finds nothing open, a
\* grab overwrites a grab left open, and a hold of some length is closed
MeasuredIdleOverwriteAndClose ==
    /\ rd.pc = "collected"
    /\ \E n \in DOMAIN match_scoreboards[Len(match_scoreboards)].holds :
          match_scoreboards[Len(match_scoreboards)].holds[n] > 0
    /\ \E j \in DOMAIN rd.events :
          /\ rd.events[j].event \in HoldKinds.off
          /\ j \notin Closing(rd.events, HoldKinds.on, HoldKinds.off)
    /\ \E i, j \in DOMAIN rd.events :
          /\ i < j
          /\ rd.events[i].event = "grab"
          /\ rd.events[j].event = "grab"
          /\ rd.events[i].time < rd.events[j].time
          /\ \A k \in (i + 1)..(j - 1) : rd.events[k].event \notin HoldKinds.off

\* C22: the pups of the scoreboard of a player is the number of power_up
\* events among the player's events, whatever their kind: juke-juice,
\* rolling-bomb, tagpro or top-speed.
PupsCountsAllFourKinds ==
    rd.pc = "collected" =>
       match_scoreboards[Len(match_scoreboards)].pups = CountEvents(rd.events, {"power_up"})

\* C23: in a match whose red and blue teams end with the same capture total,
\* every scoreboard of team 1 or 2 has the win_loss of a draw, whoever else
\* took part, players on no team included.
TiedTeamsDraw ==
    (/\ mpc = "returned"
     /\ {red_team, blue_team} \subseteq DOMAIN team_caps
     /\ team_caps[red_team] = team_caps[blue_team]) =>
       \A i \in DOMAIN match_scoreboards :
          match_scoreboards[i].team \in {red_team, blue_team} =>
             match_scoreboards[i].win_loss = DRAW

\* C24: the temporary flag kind does not outlive the frame that grabbed it:
\* between frames the decoder holds a flag of kind 0..4, an event carrying
\* kind 5 belongs to a frame that grabbed kind 5, and no end event carries it.
TemporaryFlagEndsWithFrame ==
    /\ rd.pc = "loop" => rd.flag \in 0..4
    /\ rd.pc \in {"loop", "done", "collected"} =>
          \A i \in DOMAIN rd.events :
             rd.events[i].flag = temporary_flag =>
                /\ rd.events[i].event # "end"
                /\ \E j \in DOMAIN rd.events :
                      /\ rd.events[j].event = "grab"
                      /\ rd.events[j].flag = temporary_flag
                      /\ rd.events[j].time = rd.events[i].time

\* the number of turns the frame loop takes from where the reader stands
RECURSIVE FramesLeft(_)
FramesLeft(r) ==
    IF r.pc # "loop" \/ End(r.data, r.pos) THEN 0 ELSE 1 + FramesLeft(DecodeTurn(r))

\* C25: a frame starts with the cursor on a byte boundary, ends on one, and
\* moves the cursor on by 16 bits or more; the loop over a payload of L bytes
\* takes at most ceil(L/2) turns.
FramesAreByteAligned ==
    [][/\ FrameTaken =>
             /\ rd.pos % 8 = 0
             /\ rd'.pos % 8 = 0
             /\ rd'.pos >= rd.pos + 16
       /\ (rd.pc = "start" /\ rd'.pc = "loop") =>
             /\ rd'.pos = 0
             /\ 2 * FramesLeft(rd') <= Len(rd'.data) + 1]_vars

\* a payload of three bytes after its second frame, which began on the last
\* byte and read on past the end of the payload
SecondFramePastTheEnd ==
    /\ rd.pc = "loop"
    /\ Len(rd.data) = 3
    /\ rd.pos >= 32
    /\ rd.pos % 8 = 0
    /\ rd.time >= 2

\* the kinds of the events of a list that belong to a toggle, in their order
ToggleKinds(events, start, stop) ==
    LET toggles == SelectSeq(events, LAMBDA e : e.event \in {start, stop})
    IN  [i \in DOMAIN toggles |-> toggles[i].event]

\* whether a list of kinds is start, stop, start, stop, ... from a start on
Alternates(kinds, start, stop) ==
    \A i \in DOMAIN kinds : kinds[i] = IF i % 2 = 1 THEN start ELSE stop

\* the start and stop kinds of the three toggles
Toggles ==
    {<<"prevent_start", "prevent_stop">>, <<"button_start", "button_stop">>,
     <<"block_start", "block_stop">>}

\* C26: in the events of a player, while they are decoded and once they are
\* sorted and returned, the start and stop events of each toggle alternate
\* from a start on; there are as many starts as stops, or one more, and the
\* decoder's boolean of the toggle is on exactly when a start came last.
TogglesAlternate ==
    rd.pc \in {"loop", "done", "collected"} =>
       \A toggle \in Toggles :
          /\ Alternates(ToggleKinds(rd.events, toggle[1], toggle[2]), toggle[1], toggle[2])
          /\ CountEvents(rd.events, {toggle[1]}) - CountEvents(rd.events, {toggle[2]}) \in {0, 1}
          /\ (CASE toggle[1] = "prevent_start" -> rd.prevent
                 [] toggle[1] = "button_start" -> rd.button
                 [] OTHER -> rd.block) =
                (Len(ToggleKinds(rd.events, toggle[1], toggle[2])) % 2 = 1)

\* a returned decode with a prevent started and stopped, and a button started
\* and left on
PreventStoppedButtonLeftOn ==
    /\ rd.pc = "done"
    /\ ToggleKinds(rd.events, "prevent_start", "prevent_stop") = <<"prevent_start", "prevent_stop">>
    /\ ToggleKinds(rd.events, "button_start", "button_stop") = <<"button_start">>

(***************************************************************************)
(* C27: inside generate_match_info the winner resolution never misses a     *)
(* team: once every player is collected, each scoreboard's team is the team *)
(* of that player's end event and so a key of the capture totals, and       *)
(* add_winner_to_scoreboard returns.  Called with a scoreboard whose team   *)
(* is not a key of the totals, add_winner_to_scoreboard raises KeyError and *)
(* that scoreboard gets no score, 0 or other.                               *)
(***************************************************************************)
\* generate_match_info has collected every player of the match
InsideMatch == Len(match_scoreboards) = match_json.nplayers

\* the end event of the player of scoreboard sb carries sb's team
EndCarriesTeam(sb) ==
    \E k \in DOMAIN match_events :
        /\ match_events[k].event = "end"
        /\ match_events[k].name = sb.name
        /\ match_events[k].team = sb.team

\* the scoreboards whose team is not a key of the totals
AbsentTeams == {i \in DOMAIN match_scoreboards : match_scoreboards[i].team \notin DOMAIN team_caps}

WinnerFindsEveryTeam ==
    [][/\ (mpc \in {"sorted", "annotated"} /\ InsideMatch) =>
             \A i \in DOMAIN match_scoreboards : EndCarriesTeam(match_scoreboards[i])
       /\ (mpc = "annotated" /\ InsideMatch) => AbsentTeams = {}
       /\ (mpc = "annotated" /\ mpc' # mpc) =>
             /\ (mpc' = "KeyError") <=> (AbsentTeams # {})
             /\ (mpc' = "returned") <=> (AbsentTeams = {})
             /\ \A i \in AbsentTeams :
                   /\ match_scoreboards'[i] = match_scoreboards[i]
                   /\ match_scoreboards'[i].final_team_score = None
             /\ mpc' = "returned" =>
                   \A i \in DOMAIN match_scoreboards :
                       match_scoreboards'[i].final_team_score
                           = team_caps[match_scoreboards[i].team]]_vars

\* a match of two players has returned, and one of them switched team, so that
\* the team on its scoreboard is a key of the totals through its end event alone
ReturnedByEndEventOnly ==
    /\ mpc = "returned"
    /\ match_json.nplayers = 2
    /\ \E i \in DOMAIN match_scoreboards :
          /\ \E k \in DOMAIN match_events :
                match_events[k].event = "switch" /\ match_events[k].name = i
          /\ match_scoreboards[i].final_team_score = team_caps[match_scoreboards[i].team]
          /\ \A k \in DOMAIN match_events :
                match_events[k].team = match_scoreboards[i].team =>
                    match_events[k].event = "end" /\ match_events[k].name = i

\* a call from outside that failed on its second scoreboard, after the first
\* one got its score
FailedOnAbsentTeam ==
    /\ mpc = "KeyError"
    /\ Len(match_scoreboards) = 2
    /\ match_scoreboards[1].final_team_score = 1
    /\ match_scoreboards[2].final_team_score = None
    /\ match_scoreboards[2].team \notin DOMAIN team_caps

====
